---- MODULE Spec2Model ----
(***************************************************************************)
(* A model of the nuclei execution engine glue: core.Engine and its        *)
(* WorkPool, runner.Runner.RunEnumeration, the SDK facade                  *)
(* NucleiEngine.ExecuteWithCallback, the host error cache gate, the output *)
(* writer and the resume snapshot.                                         *)
(*                                                                         *)
(* Each component has its own variables and its own specification; a       *)
(* specification leaves the variables of the other components at their     *)
(* initial value.                                                          *)
(***************************************************************************)
EXTENDS Integers, Sequences, FiniteSets, TLC

\* a nil pointer to a struct: a record with none of the struct's fields
Nil == [nil |-> TRUE]

(***************************************************************************)
(* Bounds                                                                  *)
(***************************************************************************)
\* number of targets the input provider yields in a scheduled scan
NumHosts == 2
\* largest number of templates, and of workflows, a loaded store holds
MaxStoreTemplates == 2
MaxStoreWorkflows == 1
\* largest value of a template statistics counter
MaxStat == 1
\* largest max-host-error threshold the options carry
MaxHostErrorOption == 2
\* entries the host error cache holds before it evicts (DefaultMaxHostsCount in
\* the program), scaled to the number of hosts of the model
CacheCapacity == 1
\* Write calls made on the output writer
MaxWrites == 3
\* targets loaded into the SDK's input provider
MaxTargets == 2
\* ExecuteWithCallback calls made on one NucleiEngine
MaxExecutes == 2
\* lines of a template file handed to SignTemplate
MaxLines == 3
\* proxies listed in the proxy file
MaxProxies == 2

VARIABLES
    \* ---- core.Engine (src/pkg/core/engine.go)
    executerOpts,   \* Engine.executerOpts.CruiseControl, Nil before SetExecuterOptions
    workPool,       \* Engine.workPool: the WorkPoolConfig it was built from, or Nil
    \* ---- WorkPool scheduling (spec 4.5)
    scanning,       \* a scan has been started on the engine
    jobs,           \* (host, pool kind) -> host-job state
    \* ---- runner.Runner (src/internal/runner/runner.go)
    pc,             \* where New / RunEnumeration stands
    options,        \* Runner.options (*types.Options), the fields the run reads
    excludes,       \* options.ExcludeTags and options.ExcludedTemplates
    interactsh,     \* Runner.interactsh: Nil or the client
    hostErrors,     \* Runner.hostErrors: TRUE when it points to the cache
    executorOpts,   \* RunEnumeration's executorOpts (protocols.ExecutorOptions)
    hostErrCache,   \* the hosterrorscache.Cache object, Nil before it is created
    store,          \* RunEnumeration's store (*loader.Store)
    validation,     \* what ValidateTemplates returned and the stats counters after it
    engineCalls,    \* the ExecuteScanWithOpts calls made by executeTemplatesInput
    enumeration,    \* RunEnumeration's enumeration flag, and what the scan found
    results,        \* RunEnumeration's results (*atomic.Bool), Nil or [v |-> bool]
    err,            \* RunEnumeration's err
    flush,          \* what the interactsh Close of this run reported
    ret,            \* what RunEnumeration returned
    \* ---- the enumeration as work units under the host error cache (spec 4.2, 4.7)
    units,          \* (host, template) -> state of the work unit
    execCalls,      \* host -> executer calls made against it
    tripped,        \* hosts for which Check has been true at some point of the scan
    \* ---- OutputWriter (spec 4.8)
    dedup,          \* the keys of the events written so far
    sinkLog,        \* sink -> the events it received, in order
    writeCount,     \* Write calls so far
    writerClosed,   \* Close has been called
    \* ---- NucleiEngine, the SDK facade (src/lib/sdk.go)
    sdkPc,            \* where ExecuteWithCallback stands: idle, scan, deferred, panic
    templatesLoaded,  \* NucleiEngine.templatesLoaded
    sdkStore,         \* NucleiEngine.store: Nil or the loaded store
    inputCount,       \* NucleiEngine.inputProvider.Count()
    resultCallbacks,  \* NucleiEngine.resultCallbacks
    sdkCall,          \* the ExecuteWithCallback call in progress or last made
    sdkScans,         \* ExecuteScanWithOpts calls made by the SDK
    poolJobs,         \* the engine's work pool: inputs to dispatch and tokens held
    lateCallback,     \* a pool job invoked a result callback after the call returned
    loads,            \* a load has succeeded; a lazy load replaced the store after it
    \* ---- resume state of the Runner (src/internal/runner/runner.go)
    resumeCfg,        \* Runner.resumeCfg: [ResumeFrom, Current], per-template progress
    resumeFile,       \* the resume file: Nil or the persisted document
    savePc,           \* where SaveResumeConfig stands: idle, marshalled
    resumeCfgClone,   \* the local resumeCfgClone of SaveResumeConfig
    captured,         \* Current as it was when the last clone was taken
    saveRet,          \* what the last SaveResumeConfig returned
    \* ---- ParseOptions (src/v2/internal/runner/options.go)
    parsePc,          \* where ParseOptions stands
    userOptions,      \* the options as the user gave them
    typesOptions,     \* *types.Options, as ParseOptions changes it
    parseOut,         \* what ParseOptions did: exit, validateOptions' result, loads
    \* ---- NucleiEngine.SignTemplate (src/lib/sdk.go)
    signPc,           \* call, returned
    signArgs,         \* the data, what parsing it gives, what the signer does
    signRet,          \* the bytes and the error returned
    \* ---- loadProxies and its goroutines (src/v2/internal/runner/options.go)
    proxyURLList,     \* options.ProxyURLList, with what the network says of each
    loadPc,           \* where loadProxies stands: spawn, receive, close, returned
    started,          \* goroutines started by the loop of line 199
    goroutines,       \* where each runProxyConnectivity stands
    proxyFields,      \* options.ProxyURL and options.ProxySocksURL
    doneClosed        \* close(done) has run

engineVars == <<executerOpts, workPool, scanning, jobs>>

runnerVars == <<pc, options, excludes, interactsh, hostErrors, executorOpts, hostErrCache,
                store, validation, engineCalls, enumeration, results, err, flush, ret>>

unitVars == <<units, execCalls, tripped>>

writerVars == <<dedup, sinkLog, writeCount, writerClosed>>

sdkVars == <<sdkPc, templatesLoaded, sdkStore, inputCount, resultCallbacks, sdkCall,
             sdkScans, poolJobs, lateCallback, loads>>

resumeVars == <<resumeCfg, resumeFile, savePc, resumeCfgClone, captured, saveRet>>

parseVars == <<parsePc, userOptions, typesOptions, parseOut>>

signVars == <<signPc, signArgs, signRet>>

proxyVars == <<proxyURLList, loadPc, started, goroutines, proxyFields, doneClosed>>

vars == <<engineVars, runnerVars, unitVars, writerVars, sdkVars, resumeVars, parseVars,
          signVars, proxyVars>>

\* what an action of one component leaves alone
notEngine ==
    <<runnerVars, unitVars, writerVars, sdkVars, resumeVars, parseVars, signVars, proxyVars>>
notRunner ==
    <<engineVars, unitVars, writerVars, sdkVars, resumeVars, parseVars, signVars, proxyVars>>
notWriter ==
    <<engineVars, runnerVars, unitVars, sdkVars, resumeVars, parseVars, signVars, proxyVars>>
notSdk ==
    <<engineVars, runnerVars, unitVars, writerVars, resumeVars, parseVars, signVars, proxyVars>>
notResume ==
    <<engineVars, runnerVars, unitVars, writerVars, sdkVars, parseVars, signVars, proxyVars>>
notParse ==
    <<engineVars, runnerVars, unitVars, writerVars, sdkVars, resumeVars, signVars, proxyVars>>
notSign ==
    <<engineVars, runnerVars, unitVars, writerVars, sdkVars, resumeVars, parseVars, proxyVars>>
notProxy ==
    <<engineVars, runnerVars, unitVars, writerVars, sdkVars, resumeVars, parseVars, signVars>>

\* what the actions of one component leave alone: the other components

(***************************************************************************)
(* core.Engine                                                             *)
(***************************************************************************)
\* the concurrency values the user options are drawn from
Concurrencies == {1, 2}

\* cruisecontrol profile: Concurrency.Hosts, Concurrency.Templates
Profiles == [Hosts : Concurrencies, Templates : Concurrencies]

\* the CruiseControl carried by protocols.ExecutorOptions
CruiseControls == [Standard : Profiles, Headless : Profiles]

\* a GetWorkPool that reads the host limit where the template limit is and back
GetWorkPoolSwapped(opts) ==
    [ InputConcurrency         |-> opts.Standard.Templates,
      TypeConcurrency          |-> opts.Standard.Hosts,
      HeadlessInputConcurrency |-> opts.Headless.Hosts,
      HeadlessTypeConcurrency  |-> opts.Headless.Templates ]

\* a GetWorkPool that sizes the headless pool from the standard profile
GetWorkPoolOneProfile(opts) ==
    [ InputConcurrency         |-> opts.Standard.Hosts,
      TypeConcurrency          |-> opts.Standard.Templates,
      HeadlessInputConcurrency |-> opts.Standard.Hosts,
      HeadlessTypeConcurrency  |-> opts.Standard.Templates ]

\* Engine.GetWorkPool: NewWorkPool(WorkPoolConfig{...}) from e.executerOpts
GetWorkPool(opts) ==
    [ InputConcurrency         |-> opts.Standard.Hosts,
      TypeConcurrency          |-> opts.Standard.Templates,
      HeadlessInputConcurrency |-> opts.Headless.Hosts,
      HeadlessTypeConcurrency  |-> opts.Headless.Templates ]


\* Engine.SetExecuterOptions(given): e.executerOpts = given, then
\* e.workPool = e.GetWorkPool(), which reads the options just stored
SetExecuterOptions(given) ==
    /\ ~scanning
    /\ executerOpts' = given
    /\ workPool' = GetWorkPool(executerOpts')
    /\ UNCHANGED <<scanning, jobs>>
    /\ UNCHANGED notEngine

(***************************************************************************)
(* WorkPool: the two-level scheduler of spec 4.5.  Its code is not part of *)
(* the sources at hand; the discipline is the one the specification gives: *)
(* per (target, template group) a host token of the group's pool, inside   *)
(* it one template token per template, in store order.                     *)
(***************************************************************************)
Hosts == 1..NumHosts

PoolKinds == {"standard", "headless"}

\* the store's templates in iteration order, each with the pool it runs in
StoreKinds == <<"standard", "standard", "headless">>

\* the templates of one group, in store order
TemplatesOf(k) == SelectSeq([i \in 1..Len(StoreKinds) |-> i], LAMBDA i : StoreKinds[i] = k)

JobIds == Hosts \X PoolKinds

QueuedJob == [st |-> "queued", next |-> 1, running |-> {}]

\* host tokens of the pool of kind k
HostLimit(k) ==
    IF k = "standard" THEN workPool.InputConcurrency
                      ELSE workPool.HeadlessInputConcurrency

\* template tokens inside one host of the pool of kind k
TemplateLimit(k) ==
    IF k = "standard" THEN workPool.TypeConcurrency
                      ELSE workPool.HeadlessTypeConcurrency

\* hosts holding a host token of the pool of kind k
ActiveHosts(k) == {h \in Hosts : jobs[<<h, k>>].st = "active"}

\* Engine.ExecuteScan step 3: one host-job per input and group is enqueued
StartScan ==
    /\ ~scanning
    /\ workPool # Nil
    /\ scanning' = TRUE
    /\ jobs' = [j \in JobIds |-> QueuedJob]
    /\ UNCHANGED <<executerOpts, workPool>>
    /\ UNCHANGED notEngine

\* a host-job acquires a host token of its pool
AcquireHost(h, k) ==
    /\ scanning
    /\ jobs[<<h, k>>].st = "queued"
    /\ Cardinality(ActiveHosts(k)) < HostLimit(k)
    /\ jobs' = [jobs EXCEPT ![<<h, k>>].st = "active"]
    /\ UNCHANGED <<executerOpts, workPool, scanning>>
    /\ UNCHANGED notEngine

\* inside the host token: the next template in store order takes a template token
AcquireTemplate(h, k) ==
    LET j == jobs[<<h, k>>] IN
    /\ scanning
    /\ j.st = "active"
    /\ j.next <= Len(TemplatesOf(k))
    /\ Cardinality(j.running) < TemplateLimit(k)
    /\ jobs' = [jobs EXCEPT ![<<h, k>>] =
                    [j EXCEPT !.running = @ \cup {TemplatesOf(k)[j.next]},
                              !.next = @ + 1]]
    /\ UNCHANGED <<executerOpts, workPool, scanning>>
    /\ UNCHANGED notEngine

\* a template finishes (in any order) and releases its template token
ReleaseTemplate(h, k, t) ==
    /\ scanning
    /\ t \in jobs[<<h, k>>].running
    /\ jobs' = [jobs EXCEPT ![<<h, k>>].running = @ \ {t}]
    /\ UNCHANGED <<executerOpts, workPool, scanning>>
    /\ UNCHANGED notEngine

\* the host token is released when all templates of the host have finished
ReleaseHost(h, k) ==
    LET j == jobs[<<h, k>>] IN
    /\ scanning
    /\ j.st = "active"
    /\ j.next > Len(TemplatesOf(k))
    /\ j.running = {}
    /\ jobs' = [jobs EXCEPT ![<<h, k>>].st = "finished"]
    /\ UNCHANGED <<executerOpts, workPool, scanning>>
    /\ UNCHANGED notEngine

\* WorkPool.Wait: returns once every acquired token has been released
PoolWait ==
    /\ scanning
    /\ \A j \in JobIds : jobs[j].st = "finished"
    /\ scanning' = FALSE
    /\ jobs' = [j \in JobIds |-> QueuedJob]
    /\ UNCHANGED <<executerOpts, workPool>>
    /\ UNCHANGED notEngine

\* core.New: options only, no executer options and no work pool yet
EngineNew ==
    /\ executerOpts = Nil
    /\ workPool = Nil
    /\ scanning = FALSE
    /\ jobs = [j \in JobIds |-> QueuedJob]

EngineNext ==
    \/ \E given \in CruiseControls : SetExecuterOptions(given)
    \/ StartScan
    \/ \E h \in Hosts, k \in PoolKinds : AcquireHost(h, k)
    \/ \E h \in Hosts, k \in PoolKinds : AcquireTemplate(h, k)
    \/ \E h \in Hosts, k \in PoolKinds, t \in 1..Len(StoreKinds) : ReleaseTemplate(h, k, t)
    \/ \E h \in Hosts, k \in PoolKinds : ReleaseHost(h, k)
    \/ PoolWait

\* C1: in the standard pool, at every instant of a scan the hosts holding a host
\* token are at most the standard profile's Concurrency.Hosts, and inside each host
\* the templates executing are at most the standard profile's Concurrency.Templates
C1_StandardPoolBounded ==
    scanning =>
        /\ Cardinality(ActiveHosts("standard")) <= executerOpts.Standard.Hosts
        /\ \A h \in Hosts :
              Cardinality(jobs[<<h, "standard">>].running) <= executerOpts.Standard.Templates

\* C1 witness: both limits bind: every host token is taken while a host-job still
\* queues, and inside a host every template token is taken while a template waits
C1_Witness ==
    /\ scanning
    /\ Cardinality(ActiveHosts("standard")) = executerOpts.Standard.Hosts
    /\ \E h \in Hosts : jobs[<<h, "standard">>].st = "queued"
    /\ \E h \in Hosts :
          /\ Cardinality(jobs[<<h, "standard">>].running) = executerOpts.Standard.Templates
          /\ jobs[<<h, "standard">>].next <= Len(TemplatesOf("standard"))

\* C2: the installed pool is the one built from the options last given: each of its
\* four limits is the matching field of the matching profile, and the headless pool
\* runs under the headless limits whatever the standard ones are
C2_PoolFromOptions ==
    /\ (workPool = Nil) <=> (executerOpts = Nil)
    /\ workPool # Nil =>
          /\ workPool.InputConcurrency = executerOpts.Standard.Hosts
          /\ workPool.TypeConcurrency = executerOpts.Standard.Templates
          /\ workPool.HeadlessInputConcurrency = executerOpts.Headless.Hosts
          /\ workPool.HeadlessTypeConcurrency = executerOpts.Headless.Templates
    /\ scanning =>
          /\ Cardinality(ActiveHosts("headless")) <= executerOpts.Headless.Hosts
          /\ \A h \in Hosts :
                Cardinality(jobs[<<h, "headless">>].running) <= executerOpts.Headless.Templates

\* C2 witness: the two profiles differ, and the headless pool is full at a host
\* limit smaller than the standard one while a headless host-job queues
C2_Witness ==
    /\ scanning
    /\ executerOpts.Headless.Hosts < executerOpts.Standard.Hosts
    /\ executerOpts.Headless.Templates # executerOpts.Standard.Templates
    /\ Cardinality(ActiveHosts("headless")) = workPool.HeadlessInputConcurrency
    /\ \E h \in Hosts : jobs[<<h, "headless">>].st = "queued"



(***************************************************************************)
(* runner.Runner: New and RunEnumeration                                   *)
(***************************************************************************)
\* a nil error
NoErr == "nil"

\* errors.Wrap(err, message) of github.com/pkg/errors: nil when err is nil
Wrap(e, message) == IF e = NoErr THEN NoErr ELSE message \o ": " \o e

\* errors.New
ErrNoTemplates == "no templates provided for scan"
ErrNoInputProvider == "no input provider found"
ErrValidation == "encountered errors while performing template validation"
ErrCreateLoader == "Could not create loader."
ErrMissingInput == "missing required input (http response) to run passive templates"

\* the exclusions the user gave on the command line
UserExcludes == [Tags |-> <<"user-tag">>, Files |-> <<>>]

\* config.ReadIgnoreFile(): the ignore file's tags and files
IgnoreFiles == { [Tags |-> <<>>, Files |-> <<>>],
                 [Tags |-> <<"dos">>, Files |-> <<"ignored.yaml">>] }

\* the user options RunEnumeration branches on
RunnerOptions ==
    [ Validate          : BOOLEAN,
      AutomaticScan     : BOOLEAN,
      SecretsFile       : BOOLEAN,     \* len(options.SecretsFile) > 0
      UseHostError      : BOOLEAN,     \* options.ShouldUseHostError()
      MaxHostError      : 1..MaxHostErrorOption,
      TemplateList      : BOOLEAN,     \* TemplateList || TemplateDisplay
      OfflineHTTP       : BOOLEAN,
      HasTargets        : BOOLEAN,     \* len(Targets) > 0 or TargetsFilePath != ""
      DisableClustering : BOOLEAN ]

\* the i-th template (workflow) of a store, in the store's iteration order
StoreItems(kind, n) == [i \in 1..n |-> <<kind, i>>]

\* what the catalog resolves to: the store's templates and workflows
Stores ==
    { [ templates |-> StoreItems("template", n), workflows |-> StoreItems("workflow", m),
        loaded |-> FALSE ] : n \in 0..MaxStoreTemplates, m \in 0..MaxStoreWorkflows }

\* the stats counters read after ValidateTemplates
StatCounters == [SyntaxError : 0..MaxStat, SyntaxWarning : 0..MaxStat, RuntimeWarnings : 0..MaxStat]

NotValidated ==
    [ called |-> FALSE, err |-> NoErr,
      stats |-> [SyntaxError |-> 0, SyntaxWarning |-> 0, RuntimeWarnings |-> 0] ]

\* a fresh hosterrorscache.New(MaxHostError, ...): no host has failed yet
NewHostErrorsCache(maxHostError) ==
    [MaxHostError |-> maxHostError, entries |-> <<>>]

\* the executor options literal of RunEnumeration, before the host error cache
NewExecutorOpts ==
    [Interactsh |-> interactsh, HostErrorsCache |-> FALSE, InputHelper |-> TRUE]

\* New: builds the runner; a failed interactsh.New is logged and leaves
\* runner.interactsh nil, every other failure returns no runner
New ==
    /\ pc = "new"
    /\ \E failed \in BOOLEAN, interactshFailed \in BOOLEAN :
         IF failed
         THEN /\ pc' = "failed"
              /\ UNCHANGED interactsh
         ELSE /\ pc' = "start"
              /\ interactsh' = IF interactshFailed THEN Nil ELSE [closed |-> FALSE]
    /\ UNCHANGED <<options, excludes, hostErrors, executorOpts, hostErrCache, store,
                   validation, engineCalls, enumeration, results, err, flush, ret>>
    /\ UNCHANGED notRunner

\* a setup that keeps the new cache in r.hostErrors only and leaves the executor
\* options without it
RunSetupCacheNotPassed ==
    /\ pc = "start"
    /\ \E ignoreFile \in IgnoreFiles,
          authErr \in {NoErr, "failed to load dynamic auth templates",
                       "could not create auth provider"},
          loaderFailed \in BOOLEAN :
         /\ excludes' = IF ~options.Validate
                        THEN [ Tags  |-> excludes.Tags \o ignoreFile.Tags,
                               Files |-> excludes.Files \o ignoreFile.Files ]
                        ELSE excludes
         /\ IF options.SecretsFile /\ ~options.Validate /\ authErr # NoErr
            THEN /\ pc' = "done"
                 /\ ret' = authErr
                 /\ executorOpts' = NewExecutorOpts
                 /\ UNCHANGED <<hostErrors, hostErrCache>>
            ELSE /\ IF options.UseHostError
                    THEN /\ hostErrCache' = NewHostErrorsCache(options.MaxHostError)
                         /\ hostErrors' = TRUE
                         /\ executorOpts' = NewExecutorOpts
                    ELSE /\ executorOpts' = NewExecutorOpts
                         /\ UNCHANGED <<hostErrors, hostErrCache>>
                 /\ IF loaderFailed
                    THEN pc' = "done" /\ ret' = Wrap("loader", ErrCreateLoader)
                    ELSE pc' = "store" /\ UNCHANGED ret
    /\ UNCHANGED <<options, interactsh, store, validation, engineCalls, enumeration, results, err, flush>>
    /\ UNCHANGED notRunner

\* RunEnumeration up to loader.New: the ignore file, the executor options, the auth
\* provider, the host error cache, the engine and the two loaders
RunSetup ==
    /\ pc = "start"
    /\ \E ignoreFile \in IgnoreFiles,
          authErr \in {NoErr, "failed to load dynamic auth templates",
                       "could not create auth provider"},
          loaderFailed \in BOOLEAN :
         /\ excludes' = IF ~options.Validate
                        THEN [ Tags  |-> excludes.Tags \o ignoreFile.Tags,
                               Files |-> excludes.Files \o ignoreFile.Files ]
                        ELSE excludes
         /\ IF options.SecretsFile /\ ~options.Validate /\ authErr # NoErr
            THEN /\ pc' = "done"
                 /\ ret' = authErr
                 /\ executorOpts' = NewExecutorOpts
                 /\ UNCHANGED <<hostErrors, hostErrCache>>
            ELSE /\ IF options.UseHostError
                    THEN /\ hostErrCache' = NewHostErrorsCache(options.MaxHostError)
                         /\ hostErrors' = TRUE
                         /\ executorOpts' = [NewExecutorOpts EXCEPT !.HostErrorsCache = TRUE]
                    ELSE /\ executorOpts' = NewExecutorOpts
                         /\ UNCHANGED <<hostErrors, hostErrCache>>
                 /\ IF loaderFailed
                    THEN pc' = "done" /\ ret' = Wrap("loader", ErrCreateLoader)
                    ELSE pc' = "store" /\ UNCHANGED ret
    /\ UNCHANGED <<options, interactsh, store, validation, engineCalls, enumeration, results, err, flush>>
    /\ UNCHANGED notRunner

\* a validate branch that forgets the runtime warnings counter
RunValidateLenient ==
    /\ pc = "store"
    /\ options.Validate
    /\ \E validateErr \in {NoErr, "errors occurred during template validation"},
          stats \in StatCounters :
         /\ validation' = [called |-> TRUE, err |-> validateErr, stats |-> stats]
         /\ ret' = IF validateErr # NoErr THEN validateErr
                   ELSE IF stats.SyntaxError = 0 /\ stats.SyntaxWarning = 0
                        THEN NoErr
                        ELSE ErrValidation
    /\ pc' = "done"
    /\ UNCHANGED <<options, excludes, interactsh, hostErrors, executorOpts, hostErrCache,
                   store, engineCalls, enumeration, results, err, flush>>
    /\ UNCHANGED notRunner

\* RunEnumeration in validate mode: ValidateTemplates, then the stats counters
RunValidate ==
    /\ pc = "store"
    /\ options.Validate
    /\ \E validateErr \in {NoErr, "errors occurred during template validation"},
          stats \in StatCounters :
         /\ validation' = [called |-> TRUE, err |-> validateErr, stats |-> stats]
         /\ ret' = IF validateErr # NoErr THEN validateErr
                   ELSE IF stats.SyntaxError = 0 /\ stats.SyntaxWarning = 0
                           /\ stats.RuntimeWarnings = 0
                        THEN NoErr
                        ELSE ErrValidation
    /\ pc' = "done"
    /\ UNCHANGED <<options, excludes, interactsh, hostErrors, executorOpts, hostErrCache,
                   store, engineCalls, enumeration, results, err, flush>>
    /\ UNCHANGED notRunner

\* RunEnumeration from store.Load() to the enumeration: listing exits the process,
\* a failed secrets prefetch or http probe returns its error
RunLoad ==
    /\ pc = "store"
    /\ ~options.Validate
    /\ store' = [store EXCEPT !.loaded = TRUE]
    /\ \E prepErr \in {NoErr, "could not pre-fetch secrets", "could not probe http input"} :
         IF options.TemplateList
         THEN pc' = "exit" /\ UNCHANGED ret
         ELSE IF prepErr # NoErr
              THEN pc' = "done" /\ ret' = prepErr
              ELSE pc' = "enumerate" /\ UNCHANGED ret
    /\ UNCHANGED <<options, excludes, interactsh, hostErrors, executorOpts, hostErrCache,
                   validation, engineCalls, enumeration, results, err, flush>>
    /\ UNCHANGED notRunner

\* ptrutil.Safe(results).Load(): a nil pointer reads as the zero value
SafeLoad(p) == IF p = Nil THEN FALSE ELSE p.v

\* an executeTemplatesInput without the check for an empty list
executeTemplatesInputUnchecked(found) ==
    [ results |-> [v |-> found], err |-> NoErr,
      calls |-> << [templates |-> store.templates \o store.workflows,
                    noCluster |-> options.DisableClustering] >> ]

\* an executeTemplatesInput that appends the workflows first and always asks for
\* clustering
executeTemplatesInputWorkflowsFirst(found) ==
    LET finalTemplates == store.workflows \o store.templates IN
    IF Len(finalTemplates) = 0
    THEN [results |-> Nil, err |-> ErrNoTemplates, calls |-> <<>>]
    ELSE [ results |-> [v |-> found], err |-> NoErr,
           calls |-> << [templates |-> finalTemplates, noCluster |-> FALSE] >> ]

\* Runner.executeTemplatesInput: <<results, err, engine calls>>
executeTemplatesInput(found) ==
    LET finalTemplates == store.templates \o store.workflows IN
    IF Len(finalTemplates) = 0
    THEN [results |-> Nil, err |-> ErrNoTemplates, calls |-> <<>>]
    ELSE [ results |-> [v |-> found], err |-> NoErr,
           calls |-> << [templates |-> finalTemplates,
                         noCluster |-> options.DisableClustering] >> ]

\* Runner.executeSmartWorkflowInput: the automatic scan service fails to be
\* created or to execute, or returns what its Close reports
executeSmartWorkflowInput(found, serviceErr) ==
    IF serviceErr # NoErr
    THEN [results |-> Nil, err |-> serviceErr, calls |-> <<>>]
    ELSE [results |-> [v |-> found], err |-> NoErr, calls |-> <<>>]

\* Runner.runStandardEnumeration
runStandardEnumeration(found, serviceErr) ==
    IF options.AutomaticScan
    THEN executeSmartWorkflowInput(found, serviceErr)
    ELSE executeTemplatesInput(found)

\* RunEnumeration: results, err = r.runStandardEnumeration(...)
RunEnumerate ==
    /\ pc = "enumerate"
    /\ \E found \in BOOLEAN,
          serviceErr \in {NoErr, "could not create automatic scan service",
                          "could not execute automatic scan"} :
         LET out == runStandardEnumeration(found, serviceErr) IN
         /\ results' = out.results
         /\ err' = out.err
         /\ engineCalls' = engineCalls \o out.calls
         /\ enumeration' = [returned |-> TRUE, found |-> SafeLoad(out.results)]
    /\ pc' = "flush"
    /\ UNCHANGED <<options, excludes, interactsh, hostErrors, executorOpts, hostErrCache,
                   store, validation, flush, ret>>
    /\ UNCHANGED notRunner

\* a flush that stores what Close reported, results.Store(matched)
RunFlushStore ==
    /\ pc = "flush"
    /\ IF interactsh # Nil
       THEN \E matched \in BOOLEAN :
              /\ interactsh' = [closed |-> TRUE]
              /\ flush' = [closed |-> TRUE, matched |-> matched]
              /\ IF results = Nil
                 THEN pc' = "panic" /\ UNCHANGED results
                 ELSE pc' = "report" /\ results' = [v |-> matched]
       ELSE pc' = "report" /\ UNCHANGED <<interactsh, flush, results>>
    /\ UNCHANGED <<options, excludes, hostErrors, executorOpts, hostErrCache, store,
                   validation, engineCalls, enumeration, err, ret>>
    /\ UNCHANGED notRunner

\* a flush that calls Close without the r.interactsh != nil test
RunFlushUnguarded ==
    /\ pc = "flush"
    /\ \E matched \in BOOLEAN :
         /\ interactsh' = IF interactsh = Nil THEN Nil ELSE [closed |-> TRUE]
         /\ flush' = [closed |-> TRUE, matched |-> matched]
         /\ IF matched
            THEN IF results = Nil
                 THEN pc' = "panic" /\ UNCHANGED results
                 ELSE pc' = "report" /\ results' = [v |-> TRUE]
            ELSE pc' = "report" /\ UNCHANGED results
    /\ UNCHANGED <<options, excludes, hostErrors, executorOpts, hostErrCache, store,
                   validation, engineCalls, enumeration, err, ret>>
    /\ UNCHANGED notRunner

\* RunEnumeration: the interactsh client, when there is one, is closed and a match
\* it reports is stored with results.CompareAndSwap(false, true), which
\* dereferences results
RunFlush ==
    /\ pc = "flush"
    /\ IF interactsh # Nil
       THEN \E matched \in BOOLEAN :
              /\ interactsh' = [closed |-> TRUE]
              /\ flush' = [closed |-> TRUE, matched |-> matched]
              /\ IF matched
                 THEN IF results = Nil
                      THEN pc' = "panic" /\ UNCHANGED results
                      ELSE pc' = "report" /\ results' = [v |-> TRUE]
                 ELSE pc' = "report" /\ UNCHANGED results
       ELSE pc' = "report" /\ UNCHANGED <<interactsh, flush, results>>
    /\ UNCHANGED <<options, excludes, hostErrors, executorOpts, hostErrCache, store,
                   validation, engineCalls, enumeration, err, ret>>
    /\ UNCHANGED notRunner

\* RunEnumeration: the found-any flag is read, then the passive scan check, then
\* return err
RunReport ==
    /\ pc = "report"
    /\ ret' = IF options.OfflineHTTP /\ ~options.HasTargets
              THEN Wrap(err, ErrMissingInput)
              ELSE err
    /\ pc' = "done"
    /\ UNCHANGED <<options, excludes, interactsh, hostErrors, executorOpts, hostErrCache,
                   store, validation, engineCalls, enumeration, results, err, flush>>
    /\ UNCHANGED notRunner

\* before New: the options are parsed and the catalog is what is on disk
RunnerStart ==
    /\ pc = "new"
    /\ excludes = UserExcludes
    /\ interactsh = Nil
    /\ hostErrors = FALSE
    /\ executorOpts = Nil
    /\ hostErrCache = Nil
    /\ validation = NotValidated
    /\ engineCalls = <<>>
    /\ enumeration = [returned |-> FALSE, found |-> FALSE]
    /\ results = Nil
    /\ err = NoErr
    /\ flush = [closed |-> FALSE, matched |-> FALSE]
    /\ ret = NoErr

RunnerInit ==
    /\ RunnerStart
    /\ options \in RunnerOptions
    /\ store \in Stores

\* the runner of a specification that does not run it
RunnerIdle ==
    /\ RunnerStart
    /\ options = [ Validate |-> FALSE, AutomaticScan |-> FALSE, SecretsFile |-> FALSE,
                   UseHostError |-> FALSE, MaxHostError |-> 1, TemplateList |-> FALSE,
                   OfflineHTTP |-> FALSE, HasTargets |-> FALSE,
                   DisableClustering |-> FALSE ]
    /\ store = [templates |-> <<>>, workflows |-> <<>>, loaded |-> FALSE]

RunnerNext ==
    \/ New
    \/ RunSetup
    \/ RunValidate
    \/ RunLoad
    \/ RunEnumerate
    \/ RunFlush
    \/ RunReport

\* the store yields neither templates nor workflows
StoreEmpty == Len(store.templates) = 0 /\ Len(store.workflows) = 0

\* the stats counters read after validation are all zero
StatsClean ==
    /\ validation.stats.SyntaxError = 0
    /\ validation.stats.SyntaxWarning = 0
    /\ validation.stats.RuntimeWarnings = 0

\* C3: the interactsh client is closed only after the enumeration has returned,
\* and the found-any flag read after the flush is true exactly when the
\* enumeration found something or the Close reported a match
C3_FlushAfterEnumeration ==
    /\ flush.closed => enumeration.returned
    /\ (interactsh # Nil /\ interactsh.closed) => enumeration.returned
    /\ pc \in {"report", "done"} /\ enumeration.returned =>
          SafeLoad(results) = (enumeration.found \/ flush.matched)

\* C3 witness: the run is over, the scan found something and the Close, made
\* after it, reported no match: the flag is still true
C3_Witness ==
    /\ pc = "done"
    /\ enumeration.found
    /\ flush.closed /\ ~flush.matched
    /\ results = [v |-> TRUE]

\* C4: with an empty store executeTemplatesInput returns the error "no templates
\* provided for scan", no result flag, and makes no engine call; in validate mode
\* no run returns that error, and a clean validation returns nil also when the
\* store is empty
C4_EmptyStore ==
    /\ (enumeration.returned /\ ~options.AutomaticScan /\ StoreEmpty) =>
          /\ err = ErrNoTemplates
          /\ results = Nil
          /\ ~enumeration.found
          /\ engineCalls = <<>>
    /\ options.Validate =>
          /\ ret # ErrNoTemplates /\ err # ErrNoTemplates
          /\ (pc = "done" /\ validation.called /\ validation.err = NoErr /\ StatsClean) =>
                ret = NoErr

\* C4 witness: a run asked to execute an empty store and got the error
C4_Witness ==
    /\ enumeration.returned
    /\ ~options.AutomaticScan /\ ~options.Validate
    /\ StoreEmpty
    /\ pc = "done"
    /\ ret = ErrNoTemplates

\* what the validate branch returns for a ValidateTemplates result and counters
ValidateResult ==
    IF validation.err # NoErr THEN validation.err
    ELSE IF StatsClean THEN NoErr ELSE ErrValidation

\* C6 as stated: every return of a validate run is the ValidateTemplates error,
\* or nil exactly when the three counters are zero, or the validation error
C6_Original ==
    (options.Validate /\ pc = "done") =>
        /\ ~store.loaded
        /\ engineCalls = <<>>
        /\ excludes = UserExcludes
        /\ ret = ValidateResult

\* C6 amended: a validate run never loads the store, never calls the engine and
\* never adds the ignore file to the exclusions; once the workflow loader and the
\* store have been created it returns the ValidateTemplates error, or nil exactly
\* when the three counters are zero, or else the validation error; when one of
\* the two cannot be created it returns that error instead
C6_ValidateMode ==
    /\ options.Validate =>
          /\ ~store.loaded
          /\ engineCalls = <<>>
          /\ ~enumeration.returned
          /\ excludes = UserExcludes
    /\ (options.Validate /\ pc = "done") =>
          IF validation.called
          THEN ret = ValidateResult
          ELSE ret = Wrap("loader", ErrCreateLoader)

\* C6 witness: a validate run whose ValidateTemplates returned nil while only the
\* runtime warnings counter is not zero returned the validation error
C6_Witness ==
    /\ options.Validate /\ pc = "done"
    /\ validation.called /\ validation.err = NoErr
    /\ validation.stats.SyntaxError = 0 /\ validation.stats.SyntaxWarning = 0
    /\ validation.stats.RuntimeWarnings > 0
    /\ ret = ErrValidation

\* New returned a runner whose interactsh client could not be created
InteractshDisabled == pc \notin {"new", "failed"} /\ interactsh = Nil

\* C11: when interactsh.New fails, New still returns a runner, without an
\* interactsh client; RunEnumeration then hands no client to the executors,
\* never calls Close, never stops at the result flag, and the found-any flag
\* it reads is the one the enumeration produced.
C11_InteractshDisabled ==
    InteractshDisabled =>
        /\ ~flush.closed /\ ~flush.matched
        /\ pc # "panic"
        /\ executorOpts # Nil => executorOpts.Interactsh = Nil
        /\ (pc \in {"report", "done"} /\ enumeration.returned) =>
              SafeLoad(results) = enumeration.found

\* C11 witness: a runner without interactsh client ran a scan that found
\* something and returned nil
C11_Witness ==
    /\ InteractshDisabled
    /\ pc = "done"
    /\ enumeration.returned /\ enumeration.found
    /\ engineCalls # <<>>
    /\ ret = NoErr

\* list is the store's templates in their order, then its workflows in theirs
TemplatesThenWorkflows(list) ==
    /\ Len(list) = Len(store.templates) + Len(store.workflows)
    /\ \A i \in DOMAIN store.templates : list[i] = store.templates[i]
    /\ \A j \in DOMAIN store.workflows : list[Len(store.templates) + j] = store.workflows[j]

\* C13: every list executeTemplatesInput hands to the engine is the store's
\* templates in store order followed by the store's workflows in store order,
\* each item once, and the clustering switch it passes is the DisableClustering
\* option; a run makes at most one such call.
C13_EngineGetsStoreOrder ==
    /\ Len(engineCalls) <= 1
    /\ \A c \in DOMAIN engineCalls :
          /\ TemplatesThenWorkflows(engineCalls[c].templates)
          /\ engineCalls[c].noCluster = options.DisableClustering

\* C13 witness: a store with several templates and a workflow was handed to the
\* engine with clustering disabled
C13_Witness ==
    /\ Len(engineCalls) = 1
    /\ Len(store.templates) = MaxStoreTemplates
    /\ Len(store.workflows) = MaxStoreWorkflows
    /\ options.DisableClustering
    /\ pc = "done"

\* a passive scan was requested and no target was given
PassiveWithoutInput == options.OfflineHTTP /\ ~options.HasTargets

\* C14: a RunEnumeration that got as far as the enumeration, with a passive scan
\* requested and no target given, returns a non-nil error that reports the
\* missing input, also when the enumeration returned no error.
C14_PassiveScanNeedsInput ==
    (pc = "done" /\ enumeration.returned /\ PassiveWithoutInput) =>
        /\ ret # NoErr
        /\ ret = ErrMissingInput \o ": " \o err

\* C15: RunEnumeration never stops at a missing result flag: when the
\* enumeration failed and returned no flag, the run goes on to its return and
\* returns the enumeration's error, with or without an interactsh client and
\* whatever its Close reports.
C15_NoMissingFlagDereference ==
    /\ pc # "panic"
    /\ (pc = "done" /\ enumeration.returned /\ results = Nil) =>
          /\ err # NoErr
          /\ ret \in {err, ErrMissingInput \o ": " \o err}

(***************************************************************************)
(* The enumeration as work units gated by the host error cache.  The cache *)
(* and the executers are not part of the sources at hand; they follow spec *)
(* 4.2 (Check, MarkFailed, bounded capacity with LRU eviction) and spec    *)
(* 4.7 steps 4 to 6.  What RunEnumeration installs (RunSetup) is the code. *)
(***************************************************************************)
\* the templates of the scanned store, in store order
UnitTemplates == 1..2

UnitIds == Hosts \X UnitTemplates

\* the cache entry of host h, as a set of positions (empty or one)
EntryOf(cache, h) == {i \in 1..Len(cache.entries) : cache.entries[i].host = h}

\* HostErrorCache.Check(h): h has reached max_errors; without a cache in the
\* executor options nothing is ever gated
CheckIn(opts, cache, h) ==
    /\ opts # Nil
    /\ opts.HostErrorsCache
    /\ \E i \in EntryOf(cache, h) : cache.entries[i].errors >= cache.MaxHostError

Check(h) == CheckIn(executorOpts, hostErrCache, h)

\* the entries without position i
DropEntry(entries, i) == SubSeq(entries, 1, i - 1) \o SubSeq(entries, i + 1, Len(entries))

\* HostErrorCache.MarkFailed(h, err) for a tracked error: the entry of h is
\* created on the first failure, the least recently used entry is evicted when
\* the cache is full, and the count is incremented
MarkFailed(cache, h) ==
    IF EntryOf(cache, h) # {}
    THEN LET i == CHOOSE i \in EntryOf(cache, h) : TRUE IN
         [cache EXCEPT !.entries = DropEntry(@, i) \o
                           << [host |-> h, errors |-> cache.entries[i].errors + 1] >>]
    ELSE LET kept == IF Len(cache.entries) >= CacheCapacity
                     THEN Tail(cache.entries)
                     ELSE cache.entries IN
         [cache EXCEPT !.entries = kept \o << [host |-> h, errors |-> 1] >>]

UnitsFrame == UNCHANGED <<options, excludes, interactsh, hostErrors, executorOpts, store,
                          validation, flush, ret>>

\* Engine.ExecuteScan step 3: a host-job per input, every unit pending
ScanStart ==
    /\ pc = "enumerate"
    /\ pc' = "scanning"
    /\ units' = [u \in UnitIds |-> "pending"]
    /\ UNCHANGED <<execCalls, tripped, hostErrCache, engineCalls, enumeration, results, err>>
    /\ UnitsFrame
    /\ UNCHANGED <<engineVars, writerVars, sdkVars, resumeVars, parseVars, signVars, proxyVars>>

\* host-job, step 4: the next unit in store order checks the cache; an
\* over-threshold host short-circuits the unit, which is skipped
Dispatch(h, t) ==
    /\ pc = "scanning"
    /\ units[<<h, t>>] = "pending"
    /\ \A t2 \in UnitTemplates : t2 < t => units[<<h, t2>>] # "pending"
    /\ units' = [units EXCEPT ![<<h, t>>] = IF Check(h) THEN "skipped" ELSE "ready"]
    /\ UNCHANGED <<execCalls, tripped, hostErrCache, engineCalls, enumeration, results, err, pc>>
    /\ UnitsFrame
    /\ UNCHANGED <<engineVars, writerVars, sdkVars, resumeVars, parseVars, signVars, proxyVars>>

\* the cache gates the protocol call: the executer is called only when Check
\* is false at the call
ProtocolCall(h, t) ==
    /\ pc = "scanning"
    /\ units[<<h, t>>] = "ready"
    /\ IF Check(h)
       THEN /\ units' = [units EXCEPT ![<<h, t>>] = "skipped"]
            /\ UNCHANGED execCalls
       ELSE /\ units' = [units EXCEPT ![<<h, t>>] = "executing"]
            /\ execCalls' = [execCalls EXCEPT ![h] = @ + 1]
    /\ UNCHANGED <<tripped, hostErrCache, engineCalls, enumeration, results, err, pc>>
    /\ UnitsFrame
    /\ UNCHANGED <<engineVars, writerVars, sdkVars, resumeVars, parseVars, signVars, proxyVars>>

\* the executer's terminal outcome: a match is reported, a tracked network
\* failure marks the host in the cache the executor options carry
Finish(h, t, outcome) ==
    /\ pc = "scanning"
    /\ units[<<h, t>>] = "executing"
    /\ units' = [units EXCEPT ![<<h, t>>] = IF outcome = "match" THEN "matched" ELSE "done"]
    /\ IF outcome = "tracked failure" /\ executorOpts.HostErrorsCache
       THEN hostErrCache' = MarkFailed(hostErrCache, h)
       ELSE UNCHANGED hostErrCache
    /\ tripped' = tripped \cup {x \in Hosts : CheckIn(executorOpts, hostErrCache', x)}
    /\ UNCHANGED <<execCalls, engineCalls, enumeration, results, err, pc>>
    /\ UnitsFrame
    /\ UNCHANGED <<engineVars, writerVars, sdkVars, resumeVars, parseVars, signVars, proxyVars>>

UnitDone(u) == units[u] \in {"matched", "done", "skipped"}

\* step 7: the work pool has drained and the found-any flag is returned
ScanEnd ==
    /\ pc = "scanning"
    /\ \A u \in UnitIds : UnitDone(u)
    /\ results' = [v |-> \E u \in UnitIds : units[u] = "matched"]
    /\ err' = NoErr
    /\ enumeration' = [returned |-> TRUE, found |-> results'.v]
    /\ engineCalls' = engineCalls \o
           << [templates |-> store.templates \o store.workflows,
               noCluster |-> options.DisableClustering] >>
    /\ pc' = "flush"
    /\ UNCHANGED <<units, execCalls, tripped, hostErrCache>>
    /\ UnitsFrame
    /\ UNCHANGED <<engineVars, writerVars, sdkVars, resumeVars, parseVars, signVars, proxyVars>>

\* no scan yet
UnitsIdle ==
    /\ units = [u \in UnitIds |-> "pending"]
    /\ execCalls = [h \in Hosts |-> 0]
    /\ tripped = {}

\* a runner built without an interactsh client, about to scan a store of
\* UnitTemplates with or without host error tracking
HostErrorsStart ==
    /\ pc = "start"
    /\ excludes = UserExcludes
    /\ interactsh = Nil
    /\ hostErrors = FALSE
    /\ executorOpts = Nil
    /\ hostErrCache = Nil
    /\ validation = NotValidated
    /\ engineCalls = <<>>
    /\ enumeration = [returned |-> FALSE, found |-> FALSE]
    /\ results = Nil
    /\ err = NoErr
    /\ flush = [closed |-> FALSE, matched |-> FALSE]
    /\ ret = NoErr
    /\ options \in {o \in RunnerOptions :
                       /\ ~o.Validate /\ ~o.AutomaticScan /\ ~o.SecretsFile
                       /\ ~o.TemplateList /\ ~o.OfflineHTTP /\ o.HasTargets
                       /\ ~o.DisableClustering}
    /\ store = [templates |-> StoreItems("template", 2), workflows |-> <<>>, loaded |-> FALSE]

HostErrorsNext ==
    \/ RunSetup
    \/ RunLoad
    \/ ScanStart
    \/ \E h \in Hosts, t \in UnitTemplates : Dispatch(h, t)
    \/ \E h \in Hosts, t \in UnitTemplates : ProtocolCall(h, t)
    \/ \E h \in Hosts, t \in UnitTemplates,
          outcome \in {"match", "no match", "tracked failure", "other failure"} :
            Finish(h, t, outcome)
    \/ ScanEnd
    \/ RunFlush
    \/ RunReport

\* the units of host h whose executer was called
Executed(h) == {t \in UnitTemplates : units[<<h, t>>] \in {"executing", "matched", "done"}}

\* past the setup of a run that got as far as creating the loaders
SetupDone == pc \in {"store", "enumerate", "scanning", "flush", "report"}

C7_Installed ==
    /\ SetupDone => (executorOpts.HostErrorsCache <=> options.UseHostError)
    /\ (SetupDone /\ options.UseHostError) => (hostErrors /\ hostErrCache # Nil)
    /\ \A h \in Hosts : execCalls[h] = Cardinality(Executed(h))

Sinks == {"file", "upload"}

\* the result events executers hand to Write: single-matcher templates without
\* multi-match, so one matcher name; the extracted values are whatever the
\* response of that execution held
ResultEvents ==
    [ template_id : {"a", "b"}, target : Hosts, matcher_name : {"status"},
      extracted_hash : {"x", "y"} ]

\* the deduplication key of an event
DedupKey(e) == <<e.template_id, e.target, e.matcher_name, e.extracted_hash>>

\* OutputWriter.Write(event): a duplicate is dropped silently, anything else goes
\* to every sink in Write order; a failing sink does not abort the others
Write(e, failing) ==
    /\ ~writerClosed
    /\ writeCount < MaxWrites
    /\ writeCount' = writeCount + 1
    /\ IF DedupKey(e) \in dedup
       THEN UNCHANGED <<dedup, sinkLog>>
       ELSE /\ dedup' = dedup \cup {DedupKey(e)}
            /\ sinkLog' = [k \in Sinks |->
                              IF k \in failing THEN sinkLog[k] ELSE Append(sinkLog[k], e)]
    /\ UNCHANGED writerClosed
    /\ UNCHANGED notWriter

\* OutputWriter.Close(): flushes the sinks; idempotent
WriterClose ==
    /\ writerClosed' = TRUE
    /\ UNCHANGED <<dedup, sinkLog, writeCount>>
    /\ UNCHANGED notWriter

\* output.NewStandardWriter and the sinks around it: nothing written yet
WriterNew ==
    /\ dedup = {}
    /\ sinkLog = [k \in Sinks |-> <<>>]
    /\ writeCount = 0
    /\ writerClosed = FALSE

WriterNext ==
    \/ \E e \in ResultEvents, failing \in SUBSET Sinks : Write(e, failing)
    \/ WriterClose

\* the events a sink received for the pair (template, target)
Delivered(k, template, target) ==
    {i \in 1..Len(sinkLog[k]) :
        sinkLog[k][i].template_id = template /\ sinkLog[k][i].target = target}

\* C8: for every (template, target) pair with a single matcher and no
\* multi-match, each sink receives at most one ResultEvent over any sequence of
\* Write calls
C8_AtMostOnePerPair ==
    \A k \in Sinks, template \in {"a", "b"}, target \in Hosts :
        Cardinality(Delivered(k, template, target)) <= 1

(***************************************************************************)
(* NucleiEngine: the SDK facade (src/lib/sdk.go)                           *)
(***************************************************************************)
ErrNoTemplatesAvailable == "No templates available"
ErrNoTargetsAvailable == "No targets available"

\* the result callbacks a caller passes; NilCallback is a nil func value
Callbacks == {"cb1", "cb2"}
NilCallback == "nil func"

\* the variadic callback argument of ExecuteWithCallback
CallbackArgs ==
    {<<>>} \cup {<<c>> : c \in Callbacks \cup {NilCallback}}
           \cup {<<c, d>> : c, d \in Callbacks \cup {NilCallback}}

\* the loop of ExecuteWithCallback: the callbacks that are not nil, in order
Unfiltered(callback) == callback

Filtered(callback) == SelectSeq(callback, LAMBDA c : c # NilCallback)

\* LoadAllTemplates: e.store after the call.  A failing workflow loader returns
\* before e.store is assigned, a failing loader.New assigns what it returned
\* (no store), otherwise the new store is loaded
LoadAllTemplatesStore(old, outcome, content) ==
    CASE outcome = "workflow loader error" -> old
      [] outcome = "loader error"          -> Nil
      [] OTHER                             -> [content EXCEPT !.loaded = TRUE]

LoadOutcomes == {"workflow loader error", "loader error", "loaded"}

\* what the catalog gives a load that succeeds: the SDK only asks whether there
\* are templates and whether there are workflows; a load that fails reads nothing
LoadContents(outcome) ==
    IF outcome = "loaded"
    THEN {c \in Stores : Len(c.templates) <= 1 /\ Len(c.workflows) <= 1}
    ELSE {[templates |-> <<>>, workflows |-> <<>>, loaded |-> FALSE]}

\* what is known of the loads after one more LoadAllTemplates: lazy tells the
\* calls made by GetTemplates and ExecuteWithCallback from the user's
LoadsAfter(lazy, outcome) ==
    [ done  |-> loads.done \/ outcome = "loaded",
      again |-> loads.again \/ (lazy /\ loads.done /\ outcome # "workflow loader error") ]

\* NucleiEngine.LoadAllTemplates, called by the user
LoadAllTemplates ==
    /\ sdkPc = "idle"
    /\ \E outcome \in LoadOutcomes : \E content \in LoadContents(outcome) :
         /\ sdkStore' = LoadAllTemplatesStore(sdkStore, outcome, content)
         /\ loads' = LoadsAfter(FALSE, outcome)
    /\ UNCHANGED <<sdkPc, templatesLoaded, inputCount, resultCallbacks, sdkCall, sdkScans,
                   poolJobs, lateCallback>>
    /\ UNCHANGED notSdk

\* NucleiEngine.LoadTargets with one more target for the input provider
LoadTargets ==
    /\ sdkPc = "idle"
    /\ inputCount < MaxTargets
    /\ inputCount' = inputCount + 1
    /\ UNCHANGED <<sdkPc, templatesLoaded, sdkStore, resultCallbacks, sdkCall, sdkScans,
                   poolJobs, lateCallback, loads>>
    /\ UNCHANGED notSdk

\* NucleiEngine.GetTemplates: the lazy load, then e.store.Templates()
GetTemplates ==
    /\ sdkPc = "idle"
    /\ \E outcome \in LoadOutcomes : \E content \in LoadContents(outcome) :
         /\ sdkStore' = IF ~templatesLoaded
                         THEN LoadAllTemplatesStore(sdkStore, outcome, content)
                         ELSE sdkStore
         /\ loads' = IF ~templatesLoaded THEN LoadsAfter(TRUE, outcome) ELSE loads
    /\ sdkPc' = IF sdkStore' = Nil THEN "panic" ELSE sdkPc
    /\ UNCHANGED <<templatesLoaded, inputCount, resultCallbacks, sdkCall, sdkScans,
                   poolJobs, lateCallback>>
    /\ UNCHANGED notSdk

NoJobs == [todo |-> 0, running |-> 0]

\* the call has not returned yet
Pending == "pending"

\* NucleiEngine.ExecuteWithCallback up to the call of ExecuteScanWithOpts: the lazy
\* load, the two checks, the registration of the callbacks that are not nil
ExecuteWithCallback(callback) ==
    /\ sdkPc = "idle"
    /\ sdkCall.n < MaxExecutes
    /\ \E outcome \in LoadOutcomes : \E content \in LoadContents(outcome) :
         /\ sdkStore' = IF ~templatesLoaded
                         THEN LoadAllTemplatesStore(sdkStore, outcome, content)
                         ELSE sdkStore
         /\ loads' = IF ~templatesLoaded THEN LoadsAfter(TRUE, outcome) ELSE loads
         /\ sdkCall' = [ n |-> sdkCall.n + 1, callback |-> callback,
                         before |-> resultCallbacks, scansBefore |-> sdkScans,
                         waited |-> FALSE, invoked |-> {},
                         ret |-> IF sdkStore' = Nil THEN Pending
                                 ELSE IF /\ Len(sdkStore'.templates) = 0
                                         /\ Len(sdkStore'.workflows) = 0
                                 THEN ErrNoTemplatesAvailable
                                 ELSE IF inputCount = 0 THEN ErrNoTargetsAvailable
                                 ELSE Pending ]
         /\ IF sdkStore' = Nil
            THEN \* e.store.Templates() on a nil store
                 /\ sdkPc' = "panic"
                 /\ UNCHANGED <<resultCallbacks, sdkScans, poolJobs>>
            ELSE IF sdkCall'.ret # Pending
            THEN /\ sdkPc' = "returned"
                 /\ UNCHANGED <<resultCallbacks, sdkScans, poolJobs>>
            ELSE /\ resultCallbacks' = resultCallbacks \o Filtered(callback)
                 /\ sdkScans' = sdkScans + 1
                 /\ poolJobs' = [todo |-> inputCount, running |-> 0]
                 /\ sdkPc' = "scan"
    /\ UNCHANGED <<templatesLoaded, inputCount, lateCallback>>
    /\ UNCHANGED notSdk

SdkFrame ==
    UNCHANGED <<templatesLoaded, sdkStore, inputCount, resultCallbacks, sdkScans, loads>>

\* ExecuteScanWithOpts: a host-job takes its tokens
JobStart ==
    /\ poolJobs.todo > 0
    /\ poolJobs' = [todo |-> poolJobs.todo - 1, running |-> poolJobs.running + 1]
    /\ UNCHANGED <<sdkPc, sdkCall, lateCallback>>
    /\ SdkFrame
    /\ UNCHANGED notSdk

\* a running job reports a result: every registered callback is invoked
JobResult ==
    /\ poolJobs.running > 0
    /\ sdkCall' = [sdkCall EXCEPT
                      !.invoked = @ \cup {resultCallbacks[i] : i \in DOMAIN resultCallbacks}]
    /\ lateCallback' = (lateCallback \/ sdkPc \notin {"scan", "deferred"})
    /\ UNCHANGED <<sdkPc, poolJobs>>
    /\ SdkFrame
    /\ UNCHANGED notSdk

\* a job finishes and releases its tokens
JobEnd ==
    /\ poolJobs.running > 0
    /\ poolJobs' = [poolJobs EXCEPT !.running = @ - 1]
    /\ UNCHANGED <<sdkPc, sdkCall, lateCallback>>
    /\ SdkFrame
    /\ UNCHANGED notSdk

\* ExecuteScanWithOpts returns: every input was dispatched and the engine has
\* waited for its work pool (spec 4.7 step 7)
ScanReturn ==
    /\ sdkPc = "scan"
    /\ poolJobs = NoJobs
    /\ sdkPc' = "deferred"
    /\ UNCHANGED <<sdkCall, poolJobs, lateCallback>>
    /\ SdkFrame
    /\ UNCHANGED notSdk

\* a return of ExecuteWithCallback that does not run the deferred Wait
ExecuteReturnNoWait ==
    /\ sdkPc = "deferred"
    /\ sdkCall' = [sdkCall EXCEPT !.ret = NoErr]
    /\ sdkPc' = "returned"
    /\ UNCHANGED <<poolJobs, lateCallback>>
    /\ SdkFrame
    /\ UNCHANGED notSdk

\* return nil with defer e.engine.WorkPool().Wait(): the Wait runs, and blocks
\* until every token is released, before the call returns to its caller
ExecuteReturn ==
    /\ sdkPc = "deferred"
    /\ poolJobs.running = 0 /\ poolJobs.todo = 0
    /\ sdkCall' = [sdkCall EXCEPT !.waited = TRUE, !.ret = NoErr]
    /\ sdkPc' = "returned"
    /\ UNCHANGED <<poolJobs, lateCallback>>
    /\ SdkFrame
    /\ UNCHANGED notSdk

\* the caller has the result and may use the engine again
SdkContinue ==
    /\ sdkPc = "returned"
    /\ sdkPc' = "idle"
    /\ UNCHANGED <<sdkCall, poolJobs, lateCallback>>
    /\ SdkFrame
    /\ UNCHANGED notSdk

\* NewNucleiEngine: nothing loaded, no callback registered
SdkNew ==
    /\ sdkPc = "idle"
    /\ templatesLoaded = FALSE
    /\ sdkStore = Nil
    /\ inputCount = 0
    /\ resultCallbacks = <<>>
    /\ sdkCall = [n |-> 0, callback |-> <<>>, before |-> <<>>, scansBefore |-> 0,
                  waited |-> FALSE, invoked |-> {}, ret |-> Pending]
    /\ sdkScans = 0
    /\ poolJobs = NoJobs
    /\ lateCallback = FALSE
    /\ loads = [done |-> FALSE, again |-> FALSE]

SdkNext ==
    \/ LoadAllTemplates
    \/ GetTemplates
    \/ LoadTargets
    \/ \E callback \in CallbackArgs : ExecuteWithCallback(callback)
    \/ JobStart
    \/ JobResult
    \/ JobEnd
    \/ ScanReturn
    \/ ExecuteReturn
    \/ SdkContinue

\* how often c occurs in a sequence of callbacks
Occurrences(seq, c) == Cardinality({i \in DOMAIN seq : seq[i] = c})

\* what the last call appended to the registered callbacks
Appended == SubSeq(resultCallbacks, Len(sdkCall.before) + 1, Len(resultCallbacks))

SdkStoreEmpty == Len(sdkStore.templates) = 0 /\ Len(sdkStore.workflows) = 0

SdkUntouched ==
    /\ resultCallbacks = sdkCall.before
    /\ sdkScans = sdkCall.scansBefore
    /\ poolJobs = NoJobs
    /\ sdkCall.invoked = {}

\* C5: a call of ExecuteWithCallback on an engine that has a store returns
\* ErrNoTemplatesAvailable when the store has no template and no workflow,
\* otherwise ErrNoTargetsAvailable when the input provider counts zero targets,
\* and in both cases dispatches nothing and leaves the registered callbacks as
\* they were; otherwise it appends exactly the callbacks passed that are not nil
\* and dispatches one scan.  No nil callback is ever registered.
C5_ExecuteWithCallbackContract ==
    /\ \A i \in DOMAIN resultCallbacks : resultCallbacks[i] # NilCallback
    /\ (sdkPc \in {"scan", "deferred", "returned"}) =>
          IF SdkStoreEmpty
          THEN sdkPc = "returned" /\ sdkCall.ret = ErrNoTemplatesAvailable /\ SdkUntouched
          ELSE IF inputCount = 0
          THEN sdkPc = "returned" /\ sdkCall.ret = ErrNoTargetsAvailable /\ SdkUntouched
          ELSE /\ Len(resultCallbacks) >= Len(sdkCall.before)
               /\ SubSeq(resultCallbacks, 1, Len(sdkCall.before)) = sdkCall.before
               /\ \A c \in Callbacks :
                    Occurrences(Appended, c) = Occurrences(sdkCall.callback, c)
               /\ Occurrences(Appended, NilCallback) = 0
               /\ sdkScans = sdkCall.scansBefore + 1
               /\ sdkPc = "returned" => sdkCall.ret = NoErr

\* a second call that passes a nil and a non-nil callback is dispatched, after a
\* first one registered a callback
C5_Witness ==
    /\ sdkPc = "scan"
    /\ sdkCall.before # <<>>
    /\ Occurrences(sdkCall.callback, NilCallback) = 1
    /\ Len(Appended) = 1

\* C9: a call of ExecuteWithCallback that returned nil has run the work pool's
\* Wait, no token of the scan is held and no input is left to dispatch when it
\* returns, and no pool job invokes a result callback after the return.
C9_WaitBeforeReturn ==
    /\ (sdkPc \in {"returned", "idle"} /\ sdkCall.ret = NoErr) =>
          /\ sdkCall.waited
          /\ poolJobs = NoJobs
    /\ ~lateCallback

\* a scan whose jobs invoked a registered callback has returned nil
C9_Witness ==
    /\ sdkPc = "returned"
    /\ sdkCall.ret = NoErr
    /\ sdkCall.invoked # {}
    /\ inputCount = MaxTargets

\* C17: the lazy load of GetTemplates and ExecuteWithCallback runs only while
\* templatesLoaded is false, and once a load has succeeded none of them replaces
\* the store again.
C17_LoadedAtMostOnce == ~loads.again

(***************************************************************************)
(* Resume state: New's load and Runner.SaveResumeConfig                    *)
(***************************************************************************)
ResumeTemplates == {"a"}

\* progress of one template (spec 3, ResumeCfg)
ResumeInfos ==
    { [in_flight |-> f, completed_count |-> n] :
          f \in SUBSET Hosts, n \in 0..NumHosts }

NoProgress == [t \in {} |-> [in_flight |-> {}, completed_count |-> 0]]

\* types.NewResumeCfg: two empty maps
NewResumeCfg == [ResumeFrom |-> NoProgress, Current |-> NoProgress]

\* the documents a resume file given with -resume can hold
ResumeDocuments ==
    { [ResumeFrom |-> [t \in {"a"} |-> info]] :
          info \in { i \in ResumeInfos :
                        /\ i.in_flight # {}
                        /\ Cardinality(i.in_flight) + i.completed_count <= NumHosts } }

\* New, lines 269-283: a fresh ResumeCfg, or one whose ResumeFrom is read from
\* the resume file
LoadResume(shouldLoad, doc) ==
    IF shouldLoad THEN [NewResumeCfg EXCEPT !.ResumeFrom = doc.ResumeFrom]
    ELSE NewResumeCfg

ProgressOf(t) ==
    IF t \in DOMAIN resumeCfg.Current THEN resumeCfg.Current[t]
    ELSE [in_flight |-> {}, completed_count |-> 0]

SetProgress(t, info) ==
    [resumeCfg EXCEPT !.Current =
        [x \in DOMAIN resumeCfg.Current \cup {t} |->
            IF x = t THEN info ELSE resumeCfg.Current[x]]]

ResumeFrame == UNCHANGED <<resumeFile, savePc, resumeCfgClone, captured, saveRet>>

\* the scan starts template t on target h: h is in flight
TargetStarted(t, h) ==
    /\ h \notin ProgressOf(t).in_flight
    /\ Cardinality(ProgressOf(t).in_flight) + ProgressOf(t).completed_count < NumHosts
    /\ resumeCfg' = SetProgress(t, [ProgressOf(t) EXCEPT !.in_flight = @ \cup {h}])
    /\ ResumeFrame
    /\ UNCHANGED notResume

\* template t is done with target h
TargetCompleted(t, h) ==
    /\ h \in ProgressOf(t).in_flight
    /\ resumeCfg' = SetProgress(t, [ProgressOf(t) EXCEPT !.in_flight = @ \ {h},
                                                          !.completed_count = @ + 1])
    /\ ResumeFrame
    /\ UNCHANGED notResume

\* r.resumeCfg.Clone()
Clone(cfg) == [ResumeFrom |-> cfg.ResumeFrom, Current |-> cfg.Current]

\* a SaveResumeConfig that sets ResumeFrom on the runner's own state
SaveResumeConfigLive ==
    /\ savePc = "idle"
    /\ saveRet' = Pending
    /\ resumeCfg' = [resumeCfg EXCEPT !.ResumeFrom = resumeCfg.Current]
    /\ resumeCfgClone' = resumeCfg'
    /\ captured' = resumeCfg.Current
    /\ savePc' = "marshalled"
    /\ UNCHANGED resumeFile
    /\ UNCHANGED notResume

\* SaveResumeConfig, lines 703-711: the directory is there or made, the clone
\* is taken and its ResumeFrom set to its Current
SaveResumeConfig ==
    /\ savePc = "idle"
    /\ saveRet' = Pending
    /\ resumeCfgClone' = [Clone(resumeCfg) EXCEPT !.ResumeFrom = Clone(resumeCfg).Current]
    /\ captured' = resumeCfg.Current
    /\ savePc' = "marshalled"
    /\ UNCHANGED <<resumeCfg, resumeFile>>
    /\ UNCHANGED notResume

\* SaveResumeConfig, lines 704-706: os.MkdirAll fails
SaveMkdirFails ==
    /\ savePc = "idle"
    /\ saveRet' = "mkdir error"
    /\ UNCHANGED <<resumeCfg, resumeFile, savePc, resumeCfgClone, captured>>
    /\ UNCHANGED notResume

\* the document json.MarshalIndent makes of the clone
Marshal(clone) == [ResumeFrom |-> clone.ResumeFrom]

\* SaveResumeConfig, line 713: os.WriteFile writes the document or fails
SaveWrite ==
    /\ savePc = "marshalled"
    /\ \E written \in BOOLEAN :
         IF written
         THEN resumeFile' = Marshal(resumeCfgClone) /\ saveRet' = NoErr
         ELSE UNCHANGED resumeFile /\ saveRet' = "write error"
    /\ savePc' = "idle"
    /\ UNCHANGED <<resumeCfg, resumeCfgClone, captured>>
    /\ UNCHANGED notResume

\* New has set runner.resumeCfg; nothing was saved yet
ResumeStart ==
    /\ \E shouldLoad \in BOOLEAN, doc \in ResumeDocuments :
         /\ resumeCfg = LoadResume(shouldLoad, doc)
         /\ resumeFile = IF shouldLoad THEN doc ELSE Nil
    /\ savePc = "idle"
    /\ resumeCfgClone = NewResumeCfg
    /\ captured = NoProgress
    /\ saveRet = Pending

\* the resume state of a component that does not use it
ResumeIdle ==
    /\ resumeCfg = NewResumeCfg
    /\ resumeFile = Nil
    /\ savePc = "idle"
    /\ resumeCfgClone = NewResumeCfg
    /\ captured = NoProgress
    /\ saveRet = Pending

ResumeNext ==
    \/ \E t \in ResumeTemplates, h \in Hosts : TargetStarted(t, h)
    \/ \E t \in ResumeTemplates, h \in Hosts : TargetCompleted(t, h)
    \/ SaveResumeConfig
    \/ SaveMkdirFails
    \/ SaveWrite

C10_DocumentIsCapture ==
    (savePc = "idle" /\ saveRet = NoErr) => resumeFile = [ResumeFrom |-> captured]

\* C10: after a SaveResumeConfig that returned nil the resume file's ResumeFrom is
\* the runner's Current as it was when the clone was taken, and no step of
\* SaveResumeConfig changes the runner's resumeCfg (neither Current nor
\* ResumeFrom), wherever in the scan the save happens.
C10_NonDestructiveSnapshot ==
    /\ []C10_DocumentIsCapture
    /\ [][(savePc' # savePc \/ saveRet' # saveRet) => resumeCfg' = resumeCfg]_vars

\* a save in the middle of a resumed scan: targets are in flight, the document
\* differs from what the runner resumes from, and the scan has moved on since
C10_Witness ==
    /\ savePc = "idle" /\ saveRet = NoErr
    /\ \E t \in DOMAIN captured : captured[t].in_flight # {}
    /\ resumeCfg.ResumeFrom # NoProgress
    /\ resumeFile.ResumeFrom # resumeCfg.ResumeFrom
    /\ resumeCfg.Current # captured

(***************************************************************************)
(* ParseOptions and validateOptions (src/v2/internal/runner/options.go)    *)
(***************************************************************************)
\* the values line 59 takes for limits the user has not set
DefaultBulkSize == 25
DefaultTemplateThreads == 10
\* the limits of headless mode, lines 60-61
HeadlessLimit == 2

ErrVerboseSilent == "both verbose and silent mode specified"

\* the options ParseOptions reads, as the command line can set them
TypesOptions ==
    [ Verbose          : BOOLEAN,
      VerboseVerbose   : BOOLEAN,
      Silent           : BOOLEAN,
      Version          : BOOLEAN,
      TemplatesVersion : BOOLEAN,
      Headless         : BOOLEAN,
      Validate         : BOOLEAN,
      BulkSize         : {HeadlessLimit, DefaultBulkSize, DefaultBulkSize + 1},
      TemplateThreads  : {DefaultTemplateThreads, DefaultTemplateThreads + 1},
      Proxy            : BOOLEAN,     \* options.Proxy != ""
      ResolversFile    : BOOLEAN ]    \* options.ResolversFile != ""

\* lines 29-31 skipped: Verbose stays as given
KeepVerbose(o) == o

\* lines 29-31: VerboseVerbose implies Verbose
ImplyVerbose(o) == [o EXCEPT !.Verbose = @ \/ o.VerboseVerbose]

\* how loadProxies ends: it returns (no proxy file, or a proxy was received on the
\* done channel), it exits through gologger.Fatal, or it stays in <-done
LoadProxiesEnds(o) ==
    IF o.Proxy THEN {"returned", "fatal", "blocked"} ELSE {"returned"}

\* validateOptions: the error it returns, the options it leaves, and whether it
\* returns at all
validateOptions(o, proxies) ==
    IF o.Verbose /\ o.Silent
    THEN [ends |-> "returned", err |-> ErrVerboseSilent, options |-> o]
    ELSE IF proxies # "returned"
    THEN [ends |-> proxies, err |-> NoErr, options |-> o]
    ELSE [ ends |-> "returned", err |-> NoErr,
           options |-> IF o.Validate THEN [o EXCEPT !.Headless = TRUE] ELSE o ]

NotParsed ==
    [ exit |-> "none", message |-> "", validateRet |-> "not returned",
      resolvers |-> FALSE, protocols |-> FALSE ]

\* ParseOptions, lines 25-49: stdin, the implied Verbose, the output
\* configuration and the banner; -version and -templates-version end here
ParseStart ==
    /\ parsePc = "start"
    /\ typesOptions' = ImplyVerbose(typesOptions)
    /\ \E readErr \in BOOLEAN :
         IF typesOptions.Version
         THEN parsePc' = "exited" /\ parseOut' = [parseOut EXCEPT !.exit = "0"]
         ELSE IF typesOptions.TemplatesVersion
         THEN /\ parsePc' = "exited"
              /\ parseOut' = IF readErr
                             THEN [parseOut EXCEPT !.exit = "fatal",
                                      !.message = "Could not read template configuration"]
                             ELSE [parseOut EXCEPT !.exit = "0"]
         ELSE parsePc' = "validate" /\ UNCHANGED parseOut
    /\ UNCHANGED userOptions
    /\ UNCHANGED notParse

\* ParseOptions, lines 53-55: validateOptions, fatal when it returns an error
ParseValidate ==
    /\ parsePc = "validate"
    /\ \E proxies \in LoadProxiesEnds(typesOptions) :
         LET v == validateOptions(typesOptions, proxies) IN
         /\ typesOptions' = v.options
         /\ IF v.ends = "blocked"
            THEN parsePc' = "blocked" /\ UNCHANGED parseOut
            ELSE IF v.ends = "fatal"
            THEN /\ parsePc' = "exited"
                 /\ parseOut' = [parseOut EXCEPT !.exit = "fatal",
                                     !.message = "Could not load proxies"]
            ELSE IF v.err # NoErr
            THEN /\ parsePc' = "exited"
                 /\ parseOut' = [parseOut EXCEPT !.exit = "fatal", !.validateRet = v.err,
                                     !.message = "Program exiting: " \o v.err]
            ELSE /\ parsePc' = "adjust"
                 /\ parseOut' = [parseOut EXCEPT !.validateRet = NoErr]
    /\ UNCHANGED userOptions
    /\ UNCHANGED notParse

\* ParseOptions, lines 57-62: the limits of headless mode
ParseAdjust ==
    /\ parsePc = "adjust"
    /\ typesOptions' =
          IF /\ typesOptions.Headless
             /\ typesOptions.BulkSize = DefaultBulkSize
             /\ typesOptions.TemplateThreads = DefaultTemplateThreads
          THEN [typesOptions EXCEPT !.BulkSize = HeadlessLimit,
                                    !.TemplateThreads = HeadlessLimit]
          ELSE typesOptions
    /\ parsePc' = "resolvers"
    /\ UNCHANGED <<userOptions, parseOut>>
    /\ UNCHANGED notParse

\* ParseOptions, line 65: loadResolvers, fatal when the file cannot be opened
ParseResolvers ==
    /\ parsePc = "resolvers"
    /\ \E openErr \in BOOLEAN :
         IF ~typesOptions.ResolversFile
         THEN parsePc' = "protocols" /\ UNCHANGED parseOut
         ELSE IF openErr
         THEN /\ parsePc' = "exited"
              /\ parseOut' = [parseOut EXCEPT !.exit = "fatal",
                                  !.message = "Could not open resolvers file"]
         ELSE /\ parsePc' = "protocols"
              /\ parseOut' = [parseOut EXCEPT !.resolvers = TRUE]
    /\ UNCHANGED <<userOptions, typesOptions>>
    /\ UNCHANGED notParse

\* ParseOptions, lines 67-78: the payload variables and protocolinit.Init
ParseProtocols ==
    /\ parsePc = "protocols"
    /\ \E initErr \in BOOLEAN :
         IF initErr
         THEN /\ parsePc' = "exited"
              /\ parseOut' = [parseOut EXCEPT !.exit = "fatal",
                                  !.message = "Could not initialize protocols"]
         ELSE /\ parsePc' = "done"
              /\ parseOut' = [parseOut EXCEPT !.protocols = TRUE]
    /\ UNCHANGED <<userOptions, typesOptions>>
    /\ UNCHANGED notParse

\* the flags are read, ParseOptions is about to be called
ParseInit ==
    /\ parsePc = "start"
    /\ userOptions \in TypesOptions
    /\ typesOptions = userOptions
    /\ parseOut = NotParsed

\* the options of a specification that does not parse them
ParseIdle ==
    /\ parsePc = "start"
    /\ userOptions = [ Verbose |-> FALSE, VerboseVerbose |-> FALSE, Silent |-> FALSE,
                       Version |-> FALSE, TemplatesVersion |-> FALSE,
                       Headless |-> FALSE, Validate |-> FALSE,
                       BulkSize |-> DefaultBulkSize,
                       TemplateThreads |-> DefaultTemplateThreads,
                       Proxy |-> FALSE, ResolversFile |-> FALSE ]
    /\ typesOptions = userOptions
    /\ parseOut = NotParsed

ParseNext ==
    \/ ParseStart
    \/ ParseValidate
    \/ ParseAdjust
    \/ ParseResolvers
    \/ ParseProtocols

\* the user asked for verbose output, directly or with VerboseVerbose, and for
\* silent output
BothModes == (userOptions.Verbose \/ userOptions.VerboseVerbose) /\ userOptions.Silent

\* ParseOptions has not gone past validateOptions
NotPastValidation ==
    /\ parsePc \in {"start", "validate", "exited"}
    /\ ~parseOut.resolvers /\ ~parseOut.protocols

ValidateReturns ==
    parseOut.validateRet # "not returned" =>
        /\ (parseOut.validateRet = ErrVerboseSilent) <=> BothModes
        /\ (parseOut.validateRet = NoErr) <=> ~BothModes

FatalVerboseSilent ==
    /\ parseOut.exit = "fatal"
    /\ parseOut.validateRet = ErrVerboseSilent
    /\ parseOut.message = "Program exiting: " \o ErrVerboseSilent

\* C12 as stated: whenever verbose and silent are both requested ParseOptions
\* ends in the fatal exit, before resolvers and protocols; validateOptions
\* returns the error exactly then
C12_Original ==
    /\ BothModes => NotPastValidation /\ (parsePc = "exited" => FatalVerboseSilent)
    /\ ValidateReturns

\* C12 amended: when verbose (given or implied by VerboseVerbose) and silent are
\* both requested, ParseOptions never gets past validateOptions, so resolvers
\* are not loaded and protocols not initialised; it exits with status 0 when
\* Version is set, with status 0 or the template configuration error when
\* TemplatesVersion is set, and otherwise with the fatal "Program exiting: both
\* verbose and silent mode specified".  When validateOptions returns, it returns
\* that error exactly when both modes are requested, and nil otherwise.
C12_VerboseSilentFatal ==
    /\ BothModes =>
          /\ NotPastValidation
          /\ parsePc = "exited" =>
                IF userOptions.Version THEN parseOut.exit = "0"
                ELSE IF userOptions.TemplatesVersion
                THEN \/ parseOut.exit = "0"
                     \/ /\ parseOut.exit = "fatal"
                        /\ parseOut.message = "Could not read template configuration"
                ELSE FatalVerboseSilent
    /\ ValidateReturns

\* C12 witness: VerboseVerbose without Verbose, and Silent, with a proxy file
\* and a resolvers file: the fatal exit
C12_Witness ==
    /\ userOptions.VerboseVerbose /\ ~userOptions.Verbose /\ userOptions.Silent
    /\ ~userOptions.Version /\ ~userOptions.TemplatesVersion
    /\ userOptions.Proxy /\ userOptions.ResolversFile
    /\ parsePc = "exited"
    /\ FatalVerboseSilent

\* the limits were the ones line 59 takes for unset
DefaultLimits ==
    /\ userOptions.BulkSize = DefaultBulkSize
    /\ userOptions.TemplateThreads = DefaultTemplateThreads

SameLimits ==
    /\ typesOptions.BulkSize = userOptions.BulkSize
    /\ typesOptions.TemplateThreads = userOptions.TemplateThreads

\* C16: after ParseOptions, BulkSize and TemplateThreads are 2 when the user asked
\* for headless mode with the default limits 25 and 10, and in every other case
\* they are what they were before
C16_LimitsOnlyForHeadless ==
    parsePc = "done" =>
        IF userOptions.Headless /\ DefaultLimits
        THEN /\ typesOptions.BulkSize = HeadlessLimit
             /\ typesOptions.TemplateThreads = HeadlessLimit
        ELSE SameLimits

(***************************************************************************)
(* NucleiEngine.SignTemplate (src/lib/sdk.go)                              *)
(***************************************************************************)
ErrNotATemplate == "signer: given filetype is not a template"

\* the signature lines a template file can carry
SignatureLines == {"# digest: old", "# digest: new"}

\* the lines of a template file; "" is an empty line
TemplateLines == {"id: t", ""} \cup SignatureLines

\* the bytes handed to SignTemplate, line by line
TemplateData == UNION { [1..n -> TemplateLines] : n \in 0..MaxLines }

RECURSIVE TrimEmpty(_)
\* bytes.Trim(data, "\n"): no empty line at either end
TrimEmpty(data) ==
    IF data = <<>> THEN data
    ELSE IF Head(data) = "" THEN TrimEmpty(Tail(data))
    ELSE IF data[Len(data)] = "" THEN TrimEmpty(SubSeq(data, 1, Len(data) - 1))
    ELSE data

\* signer.RemoveSignatureFromData: the data without its signature lines
RemoveSignatureFromData(data) ==
    TrimEmpty(SelectSeq(data, LAMBDA l : l \notin SignatureLines))

\* what ParseTemplate makes of the data, and what tmplSigner.Sign returns
SignInputs ==
    [ data      : TemplateData,
      parseErr  : {NoErr, "could not parse template"},
      Verified  : BOOLEAN,
      Workflows : 0..1,
      signErr   : {NoErr, "could not sign"},
      signature : SignatureLines ]

\* a SignTemplate that strips the old signature before it calls the signer and
\* returns the stripped bytes when the signer fails
SignTemplateStripsFirst(a) ==
    IF a.parseErr # NoErr THEN [bytes |-> a.data, err |-> a.parseErr]
    ELSE IF a.Verified THEN [bytes |-> a.data, err |-> NoErr]
    ELSE IF a.Workflows > 0 THEN [bytes |-> a.data, err |-> ErrNotATemplate]
    ELSE IF a.signErr # NoErr
    THEN [bytes |-> RemoveSignatureFromData(a.data), err |-> a.signErr]
    ELSE [ bytes |-> Append(RemoveSignatureFromData(a.data), a.signature),
           err |-> NoErr ]

\* NucleiEngine.SignTemplate: the bytes and the error it returns
SignTemplate(a) ==
    IF a.parseErr # NoErr THEN [bytes |-> a.data, err |-> a.parseErr]
    ELSE IF a.Verified THEN [bytes |-> a.data, err |-> NoErr]
    ELSE IF a.Workflows > 0 THEN [bytes |-> a.data, err |-> ErrNotATemplate]
    ELSE IF a.signErr # NoErr THEN [bytes |-> a.data, err |-> a.signErr]
    ELSE [ bytes |-> Append(RemoveSignatureFromData(a.data), a.signature),
           err |-> a.signErr ]

\* a call of SignTemplate returns
SignTemplateCall ==
    /\ signPc = "call"
    /\ signRet' = SignTemplate(signArgs)
    /\ signPc' = "returned"
    /\ UNCHANGED signArgs
    /\ UNCHANGED notSign

SignInit ==
    /\ signPc = "call"
    /\ signArgs \in SignInputs
    /\ signRet = [bytes |-> <<>>, err |-> NoErr]

\* no template is being signed
SignIdle ==
    /\ signPc = "call"
    /\ signArgs = [ data |-> <<>>, parseErr |-> NoErr, Verified |-> FALSE,
                    Workflows |-> 0, signErr |-> NoErr, signature |-> "# digest: new" ]
    /\ signRet = [bytes |-> <<>>, err |-> NoErr]

SignNext == SignTemplateCall

\* the bytes SignTemplate returns after it has signed
SignedBytes ==
    Append(RemoveSignatureFromData(signArgs.data), signArgs.signature)

\* SignTemplate got as far as a successful Sign
Signs ==
    /\ signArgs.parseErr = NoErr /\ ~signArgs.Verified
    /\ signArgs.Workflows = 0 /\ signArgs.signErr = NoErr

\* C18: SignTemplate returns the data unchanged with every error (the parse
\* error, ErrNotATemplate for an unverified workflow, the signer's error) and,
\* with a nil error, for a verified template; it returns other bytes only after
\* it signed an unverified template that is no workflow, and then returns the
\* data without its old signature, followed by the new signature on a new line.
C18_SignTemplateBytes ==
    signPc = "returned" =>
        /\ signRet.err # NoErr => signRet.bytes = signArgs.data
        /\ signArgs.parseErr # NoErr => signRet.err = signArgs.parseErr
        /\ (signArgs.parseErr = NoErr /\ signArgs.Verified) =>
              signRet = [bytes |-> signArgs.data, err |-> NoErr]
        /\ (signArgs.parseErr = NoErr /\ ~signArgs.Verified /\ signArgs.Workflows > 0) =>
              signRet.err = ErrNotATemplate
        /\ (signArgs.parseErr = NoErr /\ ~signArgs.Verified /\ signArgs.Workflows = 0
              /\ signArgs.signErr # NoErr) => signRet.err = signArgs.signErr
        /\ signRet.bytes # signArgs.data => Signs
        /\ Signs => signRet = [bytes |-> SignedBytes, err |-> NoErr]

\* C18 witness: a template that carried an old signature and an empty last line
\* comes back with the new signature in its place
C18_Witness ==
    /\ signPc = "returned"
    /\ Signs
    /\ signArgs.data = <<"id: t", "# digest: old", "">>
    /\ signArgs.signature = "# digest: new"
    /\ signRet.bytes = <<"id: t", "# digest: new">>

(***************************************************************************)
(* loadProxies and runProxyConnectivity                                    *)
(* (src/v2/internal/runner/options.go)                                     *)
(***************************************************************************)
\* a line of the proxy file: whether its host accepts a connection, and the
\* prefix assignProxy looks at
ProxyLines == [reachable : BOOLEAN, scheme : {"http", "socks5", "other"}]

\* the non-empty lists loadProxies reaches line 198 with
ProxyLists == UNION { [1..n -> ProxyLines] : n \in 1..MaxProxies }

NoProxy == [ProxyURL |-> 0, ProxySocksURL |-> 0]

\* assignProxy: the two fields after it, for proxy g of the list
assignProxy(g) ==
    IF proxyURLList[g].scheme = "http" THEN [ProxyURL |-> g, ProxySocksURL |-> 0]
    ELSE IF proxyURLList[g].scheme = "socks5" THEN [ProxyURL |-> 0, ProxySocksURL |-> g]
    ELSE proxyFields

ProxyFrame == UNCHANGED <<proxyURLList, loadPc, started, proxyFields, doneClosed>>

\* line 200: go runProxyConnectivity(ip, options, done), for the next proxy
Spawn ==
    /\ loadPc = "spawn"
    /\ started' = started + 1
    /\ goroutines' = [goroutines EXCEPT ![started + 1] = "test"]
    /\ loadPc' = IF started + 1 = Len(proxyURLList) THEN "receive" ELSE "spawn"
    /\ UNCHANGED <<proxyURLList, proxyFields, doneClosed>>
    /\ UNCHANGED notProxy

\* line 207: testProxyConnection; the goroutine ends when the dial fails
TestProxyConnection(g) ==
    /\ goroutines[g] = "test"
    /\ goroutines' = [goroutines EXCEPT ![g] =
                          IF proxyURLList[g].reachable THEN "check" ELSE "ended"]
    /\ ProxyFrame
    /\ UNCHANGED notProxy

\* line 208: the unsynchronised read of options.ProxyURL and ProxySocksURL
CheckUnset(g) ==
    /\ goroutines[g] = "check"
    /\ goroutines' = [goroutines EXCEPT ![g] =
                          IF proxyFields = NoProxy THEN "assign" ELSE "ended"]
    /\ ProxyFrame
    /\ UNCHANGED notProxy

\* line 209: assignProxy; the goroutine goes on to the send when the scheme is
\* one it knows
AssignProxy(g) ==
    /\ goroutines[g] = "assign"
    /\ proxyFields' = assignProxy(g)
    /\ goroutines' = [goroutines EXCEPT ![g] =
                          IF proxyURLList[g].scheme = "other" THEN "ended" ELSE "send"]
    /\ UNCHANGED <<proxyURLList, loadPc, started, doneClosed>>
    /\ UNCHANGED notProxy

\* lines 210 and 202: done <- true meets <-done; the channel has no buffer
Receive(g) ==
    /\ loadPc = "receive"
    /\ goroutines[g] = "send"
    /\ ~doneClosed
    /\ goroutines' = [goroutines EXCEPT ![g] = "sent"]
    /\ loadPc' = "close"
    /\ UNCHANGED <<proxyURLList, started, proxyFields, doneClosed>>
    /\ UNCHANGED notProxy

\* line 203: close(done)
CloseDone ==
    /\ loadPc = "close"
    /\ doneClosed' = TRUE
    /\ loadPc' = "returned"
    /\ UNCHANGED <<proxyURLList, started, goroutines, proxyFields>>
    /\ UNCHANGED notProxy

\* line 210 on the closed channel: a send that waits or arrives panics
SendOnClosed(g) ==
    /\ goroutines[g] = "send"
    /\ doneClosed
    /\ goroutines' = [goroutines EXCEPT ![g] = "panic"]
    /\ ProxyFrame
    /\ UNCHANGED notProxy

\* loadProxies at line 198, with the list read from the file
ProxyInit ==
    /\ proxyURLList \in ProxyLists
    /\ loadPc = "spawn"
    /\ started = 0
    /\ goroutines = [g \in DOMAIN proxyURLList |-> "not started"]
    /\ proxyFields = NoProxy
    /\ doneClosed = FALSE

\* no proxy file was given
ProxyIdle ==
    /\ proxyURLList = <<>>
    /\ loadPc = "returned"
    /\ started = 0
    /\ goroutines = <<>>
    /\ proxyFields = NoProxy
    /\ doneClosed = FALSE

GoroutineNext(g) ==
    \/ TestProxyConnection(g)
    \/ CheckUnset(g)
    \/ AssignProxy(g)
    \/ SendOnClosed(g)

ProxyNext ==
    \/ Spawn
    \/ \E g \in DOMAIN proxyURLList : TestProxyConnection(g)
    \/ \E g \in DOMAIN proxyURLList : CheckUnset(g)
    \/ \E g \in DOMAIN proxyURLList : AssignProxy(g)
    \/ \E g \in DOMAIN proxyURLList : SendOnClosed(g)
    \/ \E g \in DOMAIN proxyURLList : Receive(g)
    \/ CloseDone

\* the goroutines that got to done <- true
Senders == {g \in DOMAIN goroutines : goroutines[g] \in {"send", "sent", "panic"}}

\* C19: for every non-empty proxy list loadProxies returns in the end, whatever
\* the connectivity tests give.
C19_LoadProxiesReturns == <>(loadPc = "returned")

\* C20: at most one goroutine ever gets to the send on done, and once done is
\* closed no goroutine is sending, waits in a send, or has sent on the closed
\* channel.
C20_OneSender ==
    /\ Cardinality(Senders) <= 1
    /\ doneClosed => \A g \in DOMAIN goroutines : goroutines[g] \notin {"send", "panic"}

(***************************************************************************)
(* Specifications                                                          *)
(***************************************************************************)
EngineInit == EngineNew /\ RunnerIdle /\ UnitsIdle /\ WriterNew /\ SdkNew /\ ResumeIdle /\ ParseIdle /\ SignIdle /\ ProxyIdle

SpecEngine == EngineInit /\ [][EngineNext]_vars

Init == RunnerInit /\ EngineNew /\ UnitsIdle /\ WriterNew /\ SdkNew /\ ResumeIdle /\ ParseIdle /\ SignIdle /\ ProxyIdle

Spec == Init /\ [][RunnerNext]_vars

HostErrorsInit == HostErrorsStart /\ UnitsIdle /\ EngineNew /\ WriterNew /\ SdkNew /\ ResumeIdle /\ ParseIdle /\ SignIdle /\ ProxyIdle

SpecHostErrors == HostErrorsInit /\ [][HostErrorsNext]_vars

WriterInit == WriterNew /\ EngineNew /\ RunnerIdle /\ UnitsIdle /\ SdkNew /\ ResumeIdle /\ ParseIdle /\ SignIdle /\ ProxyIdle

SpecWriter == WriterInit /\ [][WriterNext]_vars

SdkInit == SdkNew /\ EngineNew /\ RunnerIdle /\ UnitsIdle /\ WriterNew /\ ResumeIdle /\ ParseIdle /\ SignIdle /\ ProxyIdle

SpecSdk == SdkInit /\ [][SdkNext]_vars

ResumeInit == ResumeStart /\ EngineNew /\ RunnerIdle /\ UnitsIdle /\ WriterNew /\ SdkNew /\ ParseIdle /\ SignIdle /\ ProxyIdle

SpecResume == ResumeInit /\ [][ResumeNext]_vars

OptionsInit ==
    /\ ParseInit /\ EngineNew /\ RunnerIdle /\ UnitsIdle /\ WriterNew /\ SdkNew
    /\ ResumeIdle /\ SignIdle /\ ProxyIdle

SpecOptions == OptionsInit /\ [][ParseNext]_vars

Idle ==
    /\ EngineNew /\ RunnerIdle /\ UnitsIdle /\ WriterNew /\ SdkNew /\ ResumeIdle /\ ParseIdle

SignStart == SignInit /\ Idle /\ ProxyIdle

SpecSign == SignStart /\ [][SignNext]_vars

ProxyStart == ProxyInit /\ Idle /\ SignIdle

SpecProxies == ProxyStart /\ [][ProxyNext]_vars

\* the Go scheduler runs every goroutine that can take a step, and loadProxies
\* itself
ProxyFairness ==
    /\ WF_vars(Spawn)
    /\ WF_vars(CloseDone)
    /\ \A g \in 1..MaxProxies :
          /\ WF_vars(g \in DOMAIN proxyURLList /\ GoroutineNext(g))
          /\ WF_vars(g \in DOMAIN proxyURLList /\ Receive(g))

SpecProxiesFair == ProxyStart /\ [][ProxyNext]_vars /\ ProxyFairness

====
